---- MODULE Spec2Model ----
(***************************************************************************)
(* Model of the user registration service: UserService (register,         *)
(* activate, resend) over the users and activation_codes tables and the   *)
(* activation message queue.  Every request is a process that takes one   *)
(* step per awaited storage or queue statement, so that requests          *)
(* interleave exactly where the coroutines of the service can.            *)
(***************************************************************************)
EXTENDS Integers, Sequences, FiniteSets, TLC

\* ------------------------------------------------------------------ bounds
NumProcs == 2          \* request handlers that can be in flight together
MaxRequests == 3       \* requests started in one behaviour
NumCodes == 3          \* distinct values random.randint can return in the model
MaxTicks == 2          \* times the clock advances in one behaviour
MaxPwLen == 9          \* longest password the policy is applied to
MaxMessages == 2       \* messages waiting in the queue when the consumer starts
MaxDeliveries == 3     \* deliveries to the consumer that are counted
MaxSweeps == 2         \* runs of cleanup_expired_codes in one behaviour

\* ------------------------------------------------------- program constants
CodeMin == 1000        \* random.randint(1000, 9999)
CodeTTL == 60          \* timedelta(minutes=1), in seconds
MinPasswordLen == 8    \* len(password) < 8

\* The clock advances by the lifetime of a code, so that a code is seen
\* before, exactly at and after its expires_at
TickStep == CodeTTL
MaxTime == MaxTicks * TickStep

Procs == 1..NumProcs
Emails == {"a@x.com", "b@x.com"}
Codes == CodeMin..(CodeMin + NumCodes - 1)
UserIds == 1..(Cardinality(Emails) + NumProcs)

Letters == {"p", "q"}
Digits == {"1", "2"}
GoodPw == <<"p", "p", "p", "p", "1", "1", "1", "1">>
OtherPw == <<"q", "q", "q", "q", "2", "2", "2", "2">>
WeakPw == <<"p", "1">>
RegisterPasswords == {GoodPw, WeakPw}
LoginPasswords == {GoodPw, OtherPw}

\* A letter, a digit and a character that is neither; every password over
\* them up to MaxPwLen characters
PwAlphabet == {"p", "1", "#"}
PasswordInputs == UNION {[1..n -> PwAlphabet] : n \in 0..MaxPwLen}

\* class UserStatus
UserStatus == {"PENDING", "ACTIVE", "INACTIVE", "SUSPENDED"}

VARIABLES
    users,      \* table users: set of rows
    codes,      \* table activation_codes: set of rows, key (user_id, code)
    queue,      \* messages published to the activation queue, oldest first
    now,        \* utc_now(), in seconds
    serial,     \* TRUE: the caller starts a request only when none is in flight
    nreq,       \* requests started so far
    pc,         \* pc[p]: the statement request handler p is about to run
    req,        \* req[p]: the request p serves
    user,       \* user[p]: the local variable `user` of p
    gen,        \* gen[p]: the local variable `activation_code` of p
    stamp,      \* stamp[p]: the utc_now() value p passes to update_user_status
    aux,        \* aux[p]: what p observed when it ran its checks (history)
    ret,        \* ret[p]: the response of p once pc[p] = "done"
    wins,       \* the activate requests that returned success (history)
    superseded, \* keys (user_id, code) that existed when a later issue began (history)
    raced,      \* users for whom an issue inserted inside another issue's window (history)
    regs,       \* emails of the register calls that passed the password policy (history)
    mq,         \* the broker's queue and the consumer's message_handler
    swept       \* the latest run of cleanup_expired_codes (history)

vars == <<users, codes, queue, now, serial, nreq, pc, req, user, gen, stamp, aux,
          ret, wins, superseded, raced, regs, mq, swept>>

\* ----------------------------------------------------------------- values
None == <<>>
Some(x) == <<x>>

NoUser == [user_id |-> 0, email |-> "", password_hash |-> <<>>,
           status |-> "NONE", activated_at |-> None]
NoCode == [user_id |-> 0, code |-> 0, expires_at |-> 0, created_at |-> 0,
           is_used |-> FALSE]
NoReq == [op |-> "none", email |-> "", password |-> <<>>, code |-> 0]
NoStore == [users |-> {}, codes |-> {}, queue |-> <<>>]
NoAux == [auth |-> "none", status |-> "NONE", after |-> FALSE, row |-> "none",
          expired |-> FALSE, age |-> 0, stale |-> FALSE, cut |-> FALSE,
          dup |-> FALSE, pre |-> NoStore, fault |-> "none"]

Response(kind, code, status, type, u) ==
    [kind |-> kind, err_code |-> code, err_status_code |-> status,
     err_type |-> type, user |-> u]
NoRet == Response("none", "", 0, "", NoUser)
Ok(u) == Response("OK", "", 0, "", u)

ValidationException ==
    Response("ValidationError", "DM_REG_0002", 422, "VALIDATION_ERROR", NoUser)
UserNotFoundException ==
    Response("UserNotFound", "DM_REG_0004", 404, "OBJECT_NOT_FOUND", NoUser)
EmailAlreadyExistsException ==
    Response("EmailAlreadyExists", "DM_REG_0003", 409, "DUPLICATE_REQUEST", NoUser)
InvalidActivationCodeException ==
    Response("InvalidActivationCode", "DM_REG_0005", 400, "VALIDATION_ERROR", NoUser)
ActivationCodeExpiredException ==
    Response("ActivationCodeExpired", "DM_REG_0006", 400, "EXPIRED_ERROR", NoUser)
UserAlreadyActivatedException ==
    Response("UserAlreadyActivated", "DM_REG_0007", 400, "PROCESSING_ERROR", NoUser)
DatabaseException ==
    Response("DatabaseError", "DM_REG_0008", 500, "SERVER_NOT_AVAILABLE", NoUser)
AuthenticationException ==
    Response("AuthenticationFailed", "DM_REG_0010", 401, "UNAUTHORIZED_ERROR", NoUser)
EmailServiceException ==
    Response("NotificationServiceUnavailable", "DM_REG_0009", 503, "SERVER_NOT_AVAILABLE",
             NoUser)

\* ------------------------------------------------------- entities.py
\* PasswordValidator.validate: TRUE when no ValidationException is raised
HasLetter(password) == \E i \in 1..Len(password) : password[i] \in Letters
HasNumber(password) == \E i \in 1..Len(password) : password[i] \in Digits
\* Variant: a password of exactly the minimum length is refused
PasswordValidate_AboveMin(password) ==
    /\ ~(Len(password) = 0 \/ Len(password) <= MinPasswordLen)
    /\ HasLetter(password) /\ HasNumber(password)
\* Variant: the policy is not applied
PasswordValidate_Off(password) == TRUE

PasswordValidate(password) ==
    /\ ~(Len(password) = 0 \/ Len(password) < MinPasswordLen)
    /\ HasLetter(password) /\ HasNumber(password)

\* Variant: compares with the wrong status
IsActive_WrongStatus(u) == u.status = "INACTIVE"

\* User.is_active
IsActive(u) == u.status = "ACTIVE"

\* ActivationCode.generate_for_user, with c the value random.randint returned
GenerateForUser(user_id, c) ==
    [user_id |-> user_id, code |-> c, expires_at |-> now + CodeTTL,
     created_at |-> now, is_used |-> FALSE]

\* Variant: a code is still accepted at the instant expires_at
IsExpired_Strict(row) == now > row.expires_at

\* ActivationCode.is_expired and ActivationCode.is_valid
IsExpired(row) == now >= row.expires_at
IsValid(row) == ~row.is_used /\ now < row.expires_at

\* ------------------------------------------------------ repository.py
\* bcrypt.hashpw / bcrypt.checkpw as a one-way hash and its verification
HashPw(password) == <<"$2b$12$">> \o password
VerifyPassword(u, password) == u.password_hash = HashPw(password)

\* The User entity create_user builds: a fresh uuid4, status PENDING
FreeUserIds ==
    {i \in UserIds : /\ \A u \in users : u.user_id # i
                     /\ \A q \in Procs : user[q].user_id # i}
NewUserId == CHOOSE i \in FreeUserIds : \A j \in FreeUserIds : i <= j
NewUser(email, password) ==
    [user_id |-> NewUserId, email |-> email, password_hash |-> HashPw(password),
     status |-> "PENDING", activated_at |-> None]

\* SELECT ... FROM users WHERE email = $1 (fetch one)
UserRowsByEmail(email) == {u \in users : u.email = email}

\* Variant: the table has its primary key only
UsersConstraintViolated_PkOnly(row) == \E u \in users : u.user_id = row.user_id

\* Table users: user_id UUID PRIMARY KEY, email VARCHAR(255) UNIQUE NOT NULL
UsersConstraintViolated(row) ==
    \E u \in users : u.email = row.email \/ u.user_id = row.user_id
\* Variant: the SELECT returns no row
GetUserByEmail_NoRow(email, raise_if_not_found) ==
    [exc |-> IF raise_if_not_found THEN UserNotFoundException ELSE NoRet,
     user |-> NoUser]

\* UserRepository.get_user_by_email: [exc, user], user = NoUser for None
GetUserByEmail(email, raise_if_not_found) ==
    IF UserRowsByEmail(email) = {}
    THEN [exc |-> IF raise_if_not_found THEN UserNotFoundException ELSE NoRet,
          user |-> NoUser]
    ELSE [exc |-> NoRet, user |-> CHOOSE u \in UserRowsByEmail(email) : TRUE]

\* UserRepository.get_user_by_id
GetUserById(user_id) ==
    IF \E u \in users : u.user_id = user_id
    THEN [exc |-> NoRet, user |-> CHOOSE u \in users : u.user_id = user_id]
    ELSE [exc |-> UserNotFoundException, user |-> NoUser]

\* Variant: the UPDATE leaves activated_at as it is
UpdateUserStatusRows_NoStamp(user_id, status, activated_at) ==
    {IF u.user_id = user_id THEN [u EXCEPT !.status = status] ELSE u : u \in users}

\* UPDATE users SET status = $2, activated_at = $4 WHERE user_id = $1
UpdateUserStatusRows(user_id, status, activated_at) ==
    {IF u.user_id = user_id
     THEN [u EXCEPT !.status = status, !.activated_at = activated_at]
     ELSE u : u \in users}

\* SELECT ... FROM activation_codes WHERE user_id = $1 AND code = $2
CodeRows(user_id, code) == {r \in codes : r.user_id = user_id /\ r.code = code}
\* Variant: the lookup matches on the code alone
GetActivationCode_AnyUser(user_id, code) ==
    IF {r \in codes : r.code = code} = {} THEN NoCode
    ELSE CHOOSE r \in {r \in codes : r.code = code} : TRUE

GetActivationCode(user_id, code) ==
    IF CodeRows(user_id, code) = {} THEN NoCode
    ELSE CHOOSE r \in CodeRows(user_id, code) : TRUE

\* Variant: the UPDATE matches no row
MarkCodeAsUsedRows_NoRow(user_id, code) == codes

\* UPDATE activation_codes SET is_used = TRUE WHERE user_id = $1 AND code = $2
MarkCodeAsUsedRows(user_id, code) ==
    {IF r.user_id = user_id /\ r.code = code
     THEN [r EXCEPT !.is_used = TRUE] ELSE r : r \in codes}

\* Variant: the invalidation is left out
InvalidateUserCodesRows_Skip(user_id) == codes
\* Variant: only rows that are already expired are invalidated
InvalidateUserCodesRows_ExpiredOnly(user_id) ==
    {IF r.user_id = user_id /\ r.is_used = FALSE /\ now >= r.expires_at
     THEN [r EXCEPT !.is_used = TRUE] ELSE r : r \in codes}

\* Variant: the UPDATE has no user_id condition
InvalidateUserCodesRows_AllUsers(user_id) ==
    {IF r.is_used = FALSE THEN [r EXCEPT !.is_used = TRUE] ELSE r : r \in codes}

\* UPDATE activation_codes SET is_used = TRUE WHERE user_id = $1 AND is_used = FALSE
InvalidateUserCodesRows(user_id) ==
    {IF r.user_id = user_id /\ r.is_used = FALSE
     THEN [r EXCEPT !.is_used = TRUE] ELSE r : r \in codes}

\* --------------------------------------------------------- service.py
\* Variant: UserNotFoundException is not caught
AuthenticateUser_Leak(email, password) ==
    LET got == GetUserByEmail(email, TRUE) IN
    IF got.exc # NoRet THEN [exc |-> got.exc, user |-> NoUser]
    ELSE IF ~VerifyPassword(got.user, password)
         THEN [exc |-> AuthenticationException, user |-> NoUser]
    ELSE [exc |-> NoRet, user |-> got.user]
\* Variant: the password is not verified
AuthenticateUser_NoPassword(email, password) ==
    LET got == GetUserByEmail(email, TRUE) IN
    IF got.exc # NoRet \/ got.user = NoUser
    THEN [exc |-> AuthenticationException, user |-> NoUser]
    ELSE [exc |-> NoRet, user |-> got.user]

\* UserService._authenticate_user: [exc, user]
AuthenticateUser(email, password) ==
    LET got == GetUserByEmail(email, TRUE) IN
    IF got.exc = UserNotFoundException THEN [exc |-> AuthenticationException, user |-> NoUser]
    ELSE IF got.user = NoUser THEN [exc |-> AuthenticationException, user |-> NoUser]
    ELSE IF ~VerifyPassword(got.user, password)
         THEN [exc |-> AuthenticationException, user |-> NoUser]
    ELSE [exc |-> NoRet, user |-> got.user]

\* Variant: the expiry check runs before the used check
VerifyActivationCode_ExpiredFirst(user_id, code) ==
    LET activation_code == GetActivationCode(user_id, code) IN
    IF activation_code = NoCode THEN InvalidActivationCodeException
    ELSE IF IsExpired(activation_code) THEN ActivationCodeExpiredException
    ELSE IF activation_code.is_used THEN InvalidActivationCodeException
    ELSE NoRet

\* Variant: the used flag is not looked at
VerifyActivationCode_NoUsedCheck(user_id, code) ==
    LET activation_code == GetActivationCode(user_id, code) IN
    IF activation_code = NoCode THEN InvalidActivationCodeException
    ELSE IF IsExpired(activation_code) THEN ActivationCodeExpiredException
    ELSE NoRet

\* UserService._verify_activation_code: the exception raised, NoRet for none
VerifyActivationCode(user_id, code) ==
    LET activation_code == GetActivationCode(user_id, code) IN
    IF activation_code = NoCode THEN InvalidActivationCodeException
    ELSE IF activation_code.is_used THEN InvalidActivationCodeException
    ELSE IF IsExpired(activation_code) THEN ActivationCodeExpiredException
    ELSE NoRet

\* ------------------------------------------------- messages and bodies
\* json.dumps(message).encode('utf-8'): the body publish_message sends
JsonEncode(message) == [enc |-> "json_object", value |-> message]
\* A message.body that carries no JSON object
NoMessage ==
    [type |-> "", recipient |-> "", activation_code |-> 0, user_id |-> 0,
     subject |-> "", template |-> ""]
NoBody == [enc |-> "none", value |-> NoMessage]
\* json.loads(message.body.decode('utf-8')): the exception raised, "" for none
JsonDecodeError(body) ==
    IF body.enc = "bad_utf8" THEN "UnicodeDecodeError"
    ELSE IF body.enc = "bad_json" THEN "JSONDecodeError"
    ELSE ""

\* The consumer before any delivery, on an empty queue
NoConsumer ==
    [ready |-> <<>>, pc |-> "idle", cur |-> NoBody, http |-> "none",
     console |-> FALSE, returned |-> FALSE, deliveries |-> 0, acks |-> 0,
     acked |-> {}, nacked |-> {}]
\* No run of cleanup_expired_codes yet
NoSweep ==
    [n |-> 0, count |-> 0, prev |-> 0, at |-> 0, before |-> {}, after |-> {},
     again |-> FALSE]

\* Variant: the message carries the user id where the code belongs
ActivationMessage_IdAsCode(email, activation_code, user_id) ==
    [type |-> "activation_code", recipient |-> email,
     activation_code |-> user_id, user_id |-> user_id,
     subject |-> "Your Dailymotion Activation Code", template |-> "activation_code"]

\* EmailService.send_activation_code: the message it publishes
ActivationMessage(email, activation_code, user_id) ==
    [type |-> "activation_code", recipient |-> email,
     activation_code |-> activation_code, user_id |-> user_id,
     subject |-> "Your Dailymotion Activation Code", template |-> "activation_code"]

\* ------------------------------------------------------------ init
InitWith(s) ==
    /\ users = {}
    /\ codes = {}
    /\ queue = <<>>
    /\ now = 0
    /\ serial = s
    /\ nreq = 0
    /\ pc = [p \in Procs |-> "idle"]
    /\ req = [p \in Procs |-> NoReq]
    /\ user = [p \in Procs |-> NoUser]
    /\ gen = [p \in Procs |-> NoCode]
    /\ stamp = [p \in Procs |-> 0]
    /\ aux = [p \in Procs |-> NoAux]
    /\ ret = [p \in Procs |-> NoRet]
    /\ wins = {}
    /\ superseded = {}
    /\ raced = {}
    /\ regs = {}
    /\ mq = NoConsumer
    /\ swept = NoSweep

\* Requests overlap freely
Init == InitWith(FALSE)
\* The caller waits for each response before the next request
InitSerial == InitWith(TRUE)

\* PasswordValidator.validate on its own: one register call per behaviour, on
\* empty tables, with the password drawn from PasswordInputs
InitPw ==
    /\ users = {}
    /\ codes = {}
    /\ queue = <<>>
    /\ now = 0
    /\ serial = TRUE
    /\ nreq = 0
    /\ pc = [p \in Procs |-> "idle"]
    /\ \E w \in PasswordInputs : req = [p \in Procs |-> [NoReq EXCEPT !.password = w]]
    /\ user = [p \in Procs |-> NoUser]
    /\ gen = [p \in Procs |-> NoCode]
    /\ stamp = [p \in Procs |-> 0]
    /\ aux = [p \in Procs |-> NoAux]
    /\ ret = [p \in Procs |-> NoRet]
    /\ wins = {}
    /\ superseded = {}
    /\ raced = {}
    /\ regs = {}
    /\ mq = NoConsumer
    /\ swept = NoSweep

\* The tables as an earlier run of the service left them: one registered
\* user whose status column holds any value of UserStatus, with or without
\* the code row of that registration
StoredUser(status) ==
    [user_id |-> 1, email |-> "a@x.com", password_hash |-> HashPw(GoodPw),
     status |-> status, activated_at |-> IF status = "ACTIVE" THEN Some(0) ELSE None]
StoredCode(status) ==
    [user_id |-> 1, code |-> CodeMin, expires_at |-> CodeTTL, created_at |-> 0,
     is_used |-> (status = "ACTIVE")]
InitStored ==
    /\ \E status \in UserStatus :
          /\ users = {StoredUser(status)}
          /\ codes \in SUBSET {StoredCode(status)}
    /\ queue = <<>>
    /\ now = 0
    /\ serial = TRUE
    /\ nreq = 0
    /\ pc = [p \in Procs |-> "idle"]
    /\ req = [p \in Procs |-> NoReq]
    /\ user = [p \in Procs |-> NoUser]
    /\ gen = [p \in Procs |-> NoCode]
    /\ stamp = [p \in Procs |-> 0]
    /\ aux = [p \in Procs |-> NoAux]
    /\ ret = [p \in Procs |-> NoRet]
    /\ wins = {}
    /\ superseded = {}
    /\ raced = {}
    /\ regs = {"a@x.com"}
    /\ mq = NoConsumer
    /\ swept = NoSweep

\* ---------------------------------------------------------- observations
\* What the store holds for a request at the moment a handler looks (history only)
SeenAuth(email, password) ==
    IF UserRowsByEmail(email) = {} THEN "absent"
    ELSE IF \E u \in UserRowsByEmail(email) : u.password_hash = HashPw(password)
         THEN "ok" ELSE "badpw"
SeenStatus(email) ==
    IF UserRowsByEmail(email) = {} THEN "NONE"
    ELSE (CHOOSE u \in UserRowsByEmail(email) : TRUE).status
SeenRow(user_id, code) ==
    IF CodeRows(user_id, code) = {} THEN "absent"
    ELSE IF \E r \in CodeRows(user_id, code) : r.is_used THEN "used" ELSE "unused"
SeenExpired(user_id, code) ==
    \E r \in CodeRows(user_id, code) : now >= r.expires_at
SeenAge(user_id, code) ==
    IF CodeRows(user_id, code) = {} THEN 0
    ELSE now - (CHOOSE r \in CodeRows(user_id, code) : TRUE).created_at

\* The tables and the queue as a call finds them, kept when the caller waits
\* for each response (history only)
SeenStore ==
    IF serial THEN [users |-> users, codes |-> codes, queue |-> queue] ELSE NoStore

\* ---------------------------------------------------------------- steps
CanStart(p) ==
    /\ pc[p] \in {"idle", "done"}
    /\ nreq < MaxRequests
    /\ serial => p = 1

\* A handler takes a request: its locals are the ones of a fresh call
Begin(p, r) ==
    /\ req' = [req EXCEPT ![p] = r]
    /\ stamp' = [stamp EXCEPT ![p] = 0]
    /\ nreq' = nreq + 1
    /\ aux' = [aux EXCEPT ![p] =
                 [NoAux EXCEPT !.auth = SeenAuth(r.email, r.password),
                               !.status = SeenStatus(r.email),
                               !.after = IF r.op = "register" THEN r.email \in regs
                                         ELSE \E w \in wins : /\ w.email = r.email
                                                              /\ w.password = r.password
                                                              /\ w.code = r.code,
                               !.pre = SeenStore]]

Finish(p, r) ==
    /\ pc' = [pc EXCEPT ![p] = "done"]
    /\ ret' = [ret EXCEPT ![p] = r]

Goto(p, label) ==
    /\ pc' = [pc EXCEPT ![p] = label]
    /\ UNCHANGED ret

\* UserService.register_user up to the INSERT of create_user: the password
\* policy, the existence check and the construction of the User entity
RegisterUser(p, email, password) ==
    /\ CanStart(p)
    /\ Begin(p, [op |-> "register", email |-> email, password |-> password, code |-> 0])
    /\ IF ~PasswordValidate(password)
       THEN Finish(p, ValidationException) /\ user' = [user EXCEPT ![p] = NoUser]
       ELSE IF GetUserByEmail(email, FALSE).user # NoUser
       THEN Finish(p, EmailAlreadyExistsException) /\ user' = [user EXCEPT ![p] = NoUser]
       ELSE /\ user' = [user EXCEPT ![p] = NewUser(email, password)]
            /\ Goto(p, "create_user_insert")
    /\ gen' = [gen EXCEPT ![p] = NoCode]
    /\ regs' = IF PasswordValidate(password) THEN regs \cup {email} ELSE regs
    /\ UNCHANGED <<users, codes, queue, now, serial, wins, superseded, raced, mq, swept>>

\* INSERT INTO users, whose failure create_user raises as DatabaseException,
\* then ActivationCode.generate_for_user
CreateUserInsert(p) ==
    /\ pc[p] = "create_user_insert"
    /\ IF UsersConstraintViolated(user[p])
       THEN /\ Finish(p, DatabaseException)
            /\ aux' = [aux EXCEPT ![p].dup = UserRowsByEmail(user[p].email) # {}]
            /\ UNCHANGED <<users, gen>>
       ELSE /\ users' = users \cup {user[p]}
            /\ \E c \in Codes : gen' = [gen EXCEPT ![p] = GenerateForUser(user[p].user_id, c)]
            /\ Goto(p, "invalidate_user_codes")
            /\ UNCHANGED aux
    /\ UNCHANGED <<codes, queue, now, serial, nreq, req, user, stamp, wins, superseded, raced, regs, mq, swept>>

\* ActivationCodeRepository.create_activation_code, first statement
InvalidateUserCodes(p) ==
    /\ pc[p] = "invalidate_user_codes"
    /\ codes' = InvalidateUserCodesRows(gen[p].user_id)
    /\ Goto(p, "insert_code")
    /\ superseded' = superseded \cup
         {<<r.user_id, r.code>> : r \in {x \in codes : x.user_id = gen[p].user_id}}
    /\ aux' = [aux EXCEPT ![p].cut = FALSE]
    /\ UNCHANGED <<users, queue, now, serial, nreq, req, user, gen, stamp, wins, raced, regs, mq, swept>>

\* Variant: the INSERT runs first and the invalidation after it
InsertActivationCode_ThenInvalidate(p) ==
    /\ pc[p] = "insert_code"
    /\ IF CodeRows(gen[p].user_id, gen[p].code) # {}
       THEN Finish(p, DatabaseException) /\ UNCHANGED <<codes, aux, raced>>
       ELSE /\ codes' = {IF r.user_id = gen[p].user_id THEN [r EXCEPT !.is_used = TRUE]
                         ELSE r : r \in codes \cup {gen[p]}}
            /\ Goto(p, "publish")
            /\ UNCHANGED <<aux, raced>>
    /\ UNCHANGED <<users, queue, now, serial, nreq, req, user, gen, stamp, wins,
                   superseded, regs, mq, swept>>

\* ActivationCodeRepository.create_activation_code, the INSERT (key user_id, code)
InsertActivationCode(p) ==
    /\ pc[p] = "insert_code"
    /\ IF CodeRows(gen[p].user_id, gen[p].code) # {}
       THEN Finish(p, DatabaseException) /\ UNCHANGED <<codes, aux, raced>>
       ELSE /\ codes' = codes \cup {gen[p]}
            /\ Goto(p, "publish")
            /\ aux' = [q \in Procs |->
                          IF q # p /\ pc[q] = "insert_code"
                                   /\ gen[q].user_id = gen[p].user_id
                          THEN [aux[q] EXCEPT !.cut = TRUE] ELSE aux[q]]
            /\ raced' = IF aux[p].cut THEN raced \cup {gen[p].user_id} ELSE raced
    /\ UNCHANGED <<users, queue, now, serial, nreq, req, user, gen, stamp, wins,
                   superseded, regs, mq, swept>>

\* Variant: the message is published in place of the INSERT of the code row
SendActivationCode_BeforeInsert(p) ==
    /\ pc[p] = "insert_code"
    /\ LET message == ActivationMessage(user[p].email, gen[p].code, user[p].user_id) IN
         /\ queue' = Append(queue, message)
         /\ mq' = [mq EXCEPT !.ready = Append(@, JsonEncode(message))]
    /\ Finish(p, IF req[p].op = "register" THEN Ok(user[p]) ELSE Ok(NoUser))
    /\ UNCHANGED <<users, codes, now, serial, nreq, req, user, gen, stamp, aux, wins, superseded, raced, regs, swept>>

\* EmailService.send_activation_code, then the return of register / resend
SendActivationCode(p) ==
    /\ pc[p] = "publish"
    /\ LET message == ActivationMessage(user[p].email, gen[p].code, user[p].user_id) IN
         /\ queue' = Append(queue, message)
         /\ mq' = [mq EXCEPT !.ready = Append(@, JsonEncode(message))]
    /\ Finish(p, IF req[p].op = "register" THEN Ok(user[p]) ELSE Ok(NoUser))
    /\ UNCHANGED <<users, codes, now, serial, nreq, req, user, gen, stamp, aux, wins, superseded, raced, regs, swept>>

\* UserService.activate_user: authentication and the already-active check
ActivateUser(p, email, password, code) ==
    /\ CanStart(p)
    /\ Begin(p, [op |-> "activate", email |-> email, password |-> password, code |-> code])
    /\ LET auth == AuthenticateUser(email, password) IN
       IF auth.exc # NoRet
       THEN Finish(p, auth.exc) /\ user' = [user EXCEPT ![p] = NoUser]
       ELSE IF IsActive(auth.user)
       THEN /\ Finish(p, UserAlreadyActivatedException)
            /\ user' = [user EXCEPT ![p] = auth.user]
       ELSE /\ user' = [user EXCEPT ![p] = auth.user]
            /\ Goto(p, "verify_activation_code")
    /\ gen' = [gen EXCEPT ![p] = NoCode]
    /\ UNCHANGED <<users, codes, queue, now, serial, wins, superseded, raced, regs, mq, swept>>

\* Variant: the code row is flagged used by the check itself, pass or fail
VerifyCode_Consumes(p) ==
    /\ pc[p] = "verify_activation_code"
    /\ aux' = [aux EXCEPT ![p].row = SeenRow(user[p].user_id, req[p].code),
                          ![p].expired = SeenExpired(user[p].user_id, req[p].code),
                          ![p].age = SeenAge(user[p].user_id, req[p].code),
                          ![p].stale = <<user[p].user_id, req[p].code>> \in superseded]
    /\ LET exc == VerifyActivationCode(user[p].user_id, req[p].code) IN
       IF exc # NoRet THEN Finish(p, exc) /\ UNCHANGED stamp
       ELSE /\ stamp' = [stamp EXCEPT ![p] = now]
            /\ Goto(p, "update_user_status")
    /\ codes' = MarkCodeAsUsedRows(user[p].user_id, req[p].code)
    /\ UNCHANGED <<users, queue, now, serial, nreq, req, user, gen, wins, superseded, raced, regs, mq, swept>>

\* UserService._verify_activation_code, and utc_now() for update_user_status
VerifyCode(p) ==
    /\ pc[p] = "verify_activation_code"
    /\ aux' = [aux EXCEPT ![p].row = SeenRow(user[p].user_id, req[p].code),
                          ![p].expired = SeenExpired(user[p].user_id, req[p].code),
                          ![p].age = SeenAge(user[p].user_id, req[p].code),
                          ![p].stale = <<user[p].user_id, req[p].code>> \in superseded]
    /\ LET exc == VerifyActivationCode(user[p].user_id, req[p].code) IN
       IF exc # NoRet THEN Finish(p, exc) /\ UNCHANGED stamp
       ELSE /\ stamp' = [stamp EXCEPT ![p] = now]
            /\ Goto(p, "update_user_status")
    /\ UNCHANGED <<users, codes, queue, now, serial, nreq, req, user, gen, wins, superseded, raced, regs, mq, swept>>

\* UserRepository.update_user_status, the UPDATE
UpdateUserStatus(p) ==
    /\ pc[p] = "update_user_status"
    /\ users' = UpdateUserStatusRows(user[p].user_id, "ACTIVE", Some(stamp[p]))
    /\ Goto(p, "get_user_by_id")
    /\ UNCHANGED <<codes, queue, now, serial, nreq, req, user, gen, stamp, aux, wins, superseded, raced, regs, mq, swept>>

\* UserRepository.update_user_status, the get_user_by_id it returns; user[p]
\* then holds activated_user, whose user_id is the one of user
RereadUser(p) ==
    /\ pc[p] = "get_user_by_id"
    /\ LET got == GetUserById(user[p].user_id) IN
       IF got.exc # NoRet THEN Finish(p, DatabaseException) /\ UNCHANGED user
       ELSE /\ user' = [user EXCEPT ![p] = got.user]
            /\ Goto(p, "mark_code_as_used")
    /\ UNCHANGED <<users, codes, queue, now, serial, nreq, req, gen, stamp, aux, wins, superseded, raced, regs, mq, swept>>

\* ActivationCodeRepository.mark_code_as_used, then the return of activate_user
MarkCodeAsUsed(p) ==
    /\ pc[p] = "mark_code_as_used"
    /\ codes' = MarkCodeAsUsedRows(user[p].user_id, req[p].code)
    /\ Finish(p, Ok(user[p]))
    /\ wins' = wins \cup {[p |-> p, user_id |-> user[p].user_id,
                           email |-> req[p].email, password |-> req[p].password,
                           code |-> req[p].code]}
    /\ UNCHANGED <<users, queue, now, serial, nreq, req, user, gen, stamp, aux,
                   superseded, raced, regs, mq, swept>>

\* UserService.resend_activation_code up to create_activation_code
ResendActivationCode(p, email, password) ==
    /\ CanStart(p)
    /\ Begin(p, [op |-> "resend", email |-> email, password |-> password, code |-> 0])
    /\ LET auth == AuthenticateUser(email, password) IN
       IF auth.exc # NoRet
       THEN /\ Finish(p, auth.exc)
            /\ user' = [user EXCEPT ![p] = NoUser]
            /\ gen' = [gen EXCEPT ![p] = NoCode]
       ELSE IF IsActive(auth.user)
       THEN /\ Finish(p, UserAlreadyActivatedException)
            /\ user' = [user EXCEPT ![p] = auth.user]
            /\ gen' = [gen EXCEPT ![p] = NoCode]
       ELSE /\ user' = [user EXCEPT ![p] = auth.user]
            /\ \E c \in Codes :
                 gen' = [gen EXCEPT ![p] = GenerateForUser(auth.user.user_id, c)]
            /\ Goto(p, "invalidate_user_codes")
    /\ UNCHANGED <<users, codes, queue, now, serial, wins, superseded, raced, regs, mq, swept>>

\* Time passes
Tick ==
    /\ now + TickStep <= MaxTime
    /\ now' = now + TickStep
    /\ UNCHANGED <<users, codes, queue, serial, nreq, pc, req, user, gen, stamp, aux,
                   ret, wins, superseded, raced, regs, mq, swept>>

Next ==
    \/ \E p \in Procs, e \in Emails, w \in RegisterPasswords : RegisterUser(p, e, w)
    \/ \E p \in Procs : CreateUserInsert(p)
    \/ \E p \in Procs : InvalidateUserCodes(p)
    \/ \E p \in Procs : InsertActivationCode(p)
    \/ \E p \in Procs : SendActivationCode(p)
    \/ \E p \in Procs, e \in Emails, w \in LoginPasswords, c \in Codes :
         ActivateUser(p, e, w, c)
    \/ \E p \in Procs : VerifyCode(p)
    \/ \E p \in Procs : UpdateUserStatus(p)
    \/ \E p \in Procs : RereadUser(p)
    \/ \E p \in Procs : MarkCodeAsUsed(p)
    \/ \E p \in Procs, e \in Emails, w \in LoginPasswords : ResendActivationCode(p, e, w)
    \/ Tick

Spec == Init /\ [][Next]_vars
SpecSerial == InitSerial /\ [][Next]_vars
\* ------------------------------------------------------------- faults
\* The ways RabbitMQClient.publish_message fails: no channel, declare_queue
\* raises, default_exchange.publish raises
PublishFaults == {"no_channel", "declare_queue", "publish"}

\* Variant: the failure is logged and the call goes on
SendActivationCodeError_Logged(cause) == Ok(NoUser)

\* EmailService.send_activation_code, except Exception: raise EmailServiceException()
SendActivationCodeError(cause) == EmailServiceException

\* EmailService.send_activation_code when publish_message raises
SendActivationCodeFails(p, cause) ==
    /\ pc[p] = "publish"
    /\ Finish(p, SendActivationCodeError(cause))
    /\ aux' = [aux EXCEPT ![p].fault = cause]
    /\ UNCHANGED <<users, codes, queue, now, serial, nreq, req, user, gen, stamp, wins,
                   superseded, raced, regs, mq, swept>>

\* Variant: the failure of the UPDATE is logged and the call goes on
MarkCodeAsUsedError_Logged(u) == Ok(u)

\* ActivationCodeRepository.mark_code_as_used, except Exception: raise DatabaseException
MarkCodeAsUsedError(u) == DatabaseException

\* ActivationCodeRepository.mark_code_as_used when its UPDATE fails
MarkCodeAsUsedFails(p) ==
    /\ pc[p] = "mark_code_as_used"
    /\ Finish(p, MarkCodeAsUsedError(user[p]))
    /\ aux' = [aux EXCEPT ![p].fault = "mark_code_as_used"]
    /\ UNCHANGED <<users, codes, queue, now, serial, nreq, req, user, gen, stamp, wins,
                   superseded, raced, regs, mq, swept>>

\* ActivationCodeRepository.create_activation_code when the INSERT raises for a
\* reason other than the key (connection lost, pool closed)
InsertActivationCodeFails(p) ==
    /\ pc[p] = "insert_code"
    /\ Finish(p, DatabaseException)
    /\ aux' = [aux EXCEPT ![p].fault = "create_activation_code"]
    /\ UNCHANGED <<users, codes, queue, now, serial, nreq, req, user, gen, stamp, wins,
                   superseded, raced, regs, mq, swept>>

NextFaults ==
    \/ Next
    \/ \E p \in Procs : InsertActivationCodeFails(p)
    \/ \E p \in Procs, cause \in PublishFaults : SendActivationCodeFails(p, cause)
    \/ \E p \in Procs : MarkCodeAsUsedFails(p)

\* One request at a time, with a queue and a store that can fail
SpecFaults == InitSerial /\ [][NextFaults]_vars

\* -------------------------------------------------------------- sweep
\* Variant: the DELETE removes one matching row per run
CleanupRows_OneRow ==
    LET due == {r \in codes : r.expires_at < now \/ r.is_used = TRUE} IN
    IF due = {} THEN {} ELSE {CHOOSE r \in due : TRUE}

\* DELETE FROM activation_codes WHERE expires_at < NOW() OR is_used = TRUE:
\* the rows it removes
CleanupRows == {r \in codes : r.expires_at < now \/ r.is_used = TRUE}

\* The command tag execute returns, 'DELETE n', and the count read from it
DeleteTag(n) == <<"DELETE", n>>
ParseCount(result) == IF result = None THEN 0 ELSE result[Len(result)]

\* ActivationCodeRepository.cleanup_expired_codes
CleanupExpiredCodes ==
    /\ swept.n < MaxSweeps
    /\ LET result == DeleteTag(Cardinality(CleanupRows)) IN
         /\ codes' = codes \ CleanupRows
         /\ swept' = [n |-> swept.n + 1, count |-> ParseCount(result),
                      prev |-> swept.count, at |-> now,
                      before |-> codes, after |-> codes \ CleanupRows,
                      again |-> swept.n > 0 /\ codes = swept.after /\ now = swept.at]
    /\ UNCHANGED <<users, queue, now, serial, nreq, pc, req, user, gen, stamp, aux, ret,
                   wins, superseded, raced, regs, mq>>

NextSweep ==
    \/ Next
    \/ CleanupExpiredCodes

\* One request at a time, and the sweep at any moment
SpecSweep == InitSerial /\ [][NextSweep]_vars

\* ----------------------------------------------------------- consumer
\* Bodies a producer can leave in the queue: the message of
\* send_activation_code, one without recipient, one of another type, JSON
\* that is no object, text that is no JSON, bytes that are no UTF-8
FullBody == JsonEncode(ActivationMessage("a@x.com", CodeMin, 1))
NoRecipientBody == JsonEncode([ActivationMessage("a@x.com", CodeMin, 1) EXCEPT !.recipient = ""])
OtherTypeBody == JsonEncode([ActivationMessage("a@x.com", CodeMin, 1) EXCEPT !.type = "welcome"])
ArrayBody == [enc |-> "json_array", value |-> NoMessage]
BadJsonBody == [enc |-> "bad_json", value |-> NoMessage]
BadUtf8Body == [enc |-> "bad_utf8", value |-> NoMessage]
ConsumedBodies ==
    {FullBody, NoRecipientBody, OtherTypeBody, ArrayBody, BadJsonBody, BadUtf8Body}

\* How client.post ends: a status code, httpx.TimeoutException,
\* httpx.ConnectError, any other exception
HttpOutcomes == {"200", "202", "500", "timeout", "connect_error", "error"}

\* Variant: every outcome counts as sent
SendViaHttpApi_AlwaysTrue(outcome) == TRUE

\* EmailService._send_via_http_api: the boolean it returns
SendViaHttpApi(outcome) == outcome = "200"

\* EmailConsumer._handle_email_message of scripts/email_consumer.py:
\* not all([to_email, subject, body]), each read with message_data.get(key)
RequiredByScript == {"to_email", "subject", "body"}
HandleEmailMessageInvalid(message) ==
    \E key \in RequiredByScript : key \notin DOMAIN message \/ message[key] = ""

\* Variant: the required-field check lets every message through
MissingFields_Never(message) == FALSE

\* not all([recipient, activation_code, user_id])
MissingFields(message) ==
    message.recipient = "" \/ message.activation_code = 0 \/ message.user_id = 0

InitConsumer ==
    /\ users = {}
    /\ codes = {}
    /\ queue = <<>>
    /\ now = 0
    /\ serial = TRUE
    /\ nreq = 0
    /\ pc = [p \in Procs |-> "idle"]
    /\ req = [p \in Procs |-> NoReq]
    /\ user = [p \in Procs |-> NoUser]
    /\ gen = [p \in Procs |-> NoCode]
    /\ stamp = [p \in Procs |-> 0]
    /\ aux = [p \in Procs |-> NoAux]
    /\ ret = [p \in Procs |-> NoRet]
    /\ wins = {}
    /\ superseded = {}
    /\ raced = {}
    /\ regs = {}
    /\ \E n \in 0..MaxMessages : \E bodies \in [1..n -> ConsumedBodies] :
          mq = [NoConsumer EXCEPT !.ready = bodies]
    /\ swept = NoSweep

ConsumerStep(next) ==
    /\ mq' = next
    /\ UNCHANGED <<users, codes, queue, now, serial, nreq, pc, req, user, gen, stamp, aux,
                   ret, wins, superseded, raced, regs, swept>>

\* message.nack(requeue): a requeued message goes back to the head of the queue
Nack(requeue, raised) ==
    [mq EXCEPT !.pc = "idle",
               !.nacked = @ \cup {[body |-> mq.cur, requeue |-> requeue, raised |-> raised]},
               !.ready = IF requeue THEN <<mq.cur>> \o @ ELSE @]

\* The broker hands the next message to message_handler
ConsumerDeliver ==
    /\ mq.pc = "idle"
    /\ mq.ready # <<>>
    /\ ConsumerStep([mq EXCEPT !.pc = "decode", !.cur = Head(mq.ready),
                               !.ready = Tail(mq.ready), !.http = "none",
                               !.console = FALSE, !.returned = FALSE,
                               !.deliveries =
                                   IF @ < MaxDeliveries THEN @ + 1 ELSE @])

\* message_handler: json.loads(message.body.decode('utf-8')) and its handlers
ConsumerDecode ==
    /\ mq.pc = "decode"
    /\ LET e == JsonDecodeError(mq.cur) IN
       ConsumerStep(IF e = "JSONDecodeError" THEN Nack(FALSE, e)
                    ELSE IF e # "" THEN Nack(TRUE, e)
                    ELSE [mq EXCEPT !.pc = "callback"])

\* EmailService._process_email_message and _send_activation_code_email up to
\* the HTTP attempt
ConsumerCallback ==
    /\ mq.pc = "callback"
    /\ ConsumerStep(
         IF mq.cur.enc # "json_object" THEN Nack(TRUE, "AttributeError")
         ELSE IF mq.cur.value.type # "activation_code"
         THEN [mq EXCEPT !.pc = "ack", !.returned = TRUE]
         ELSE IF MissingFields(mq.cur.value)
         THEN [mq EXCEPT !.pc = "ack", !.returned = TRUE]
         ELSE [mq EXCEPT !.pc = "http"])

\* success = await self._send_via_http_api(email_payload)
ConsumerHttp(outcome) ==
    /\ mq.pc = "http"
    /\ ConsumerStep(IF SendViaHttpApi(outcome)
                    THEN [mq EXCEPT !.pc = "ack", !.http = outcome, !.returned = TRUE]
                    ELSE [mq EXCEPT !.pc = "console", !.http = outcome])

\* self._send_via_console(recipient, activation_code)
ConsumerConsole ==
    /\ mq.pc = "console"
    /\ ConsumerStep([mq EXCEPT !.pc = "ack", !.console = TRUE, !.returned = TRUE])

\* Variant: the message is acknowledged as soon as it is decoded
ConsumerAck_OnReceipt ==
    /\ mq.pc \in {"callback", "ack"}
    /\ ConsumerStep([mq EXCEPT !.pc = "idle", !.acks = @ + 1,
                               !.acked = @ \cup {[body |-> mq.cur, http |-> mq.http,
                                                  console |-> mq.console]}])

\* message_handler: message.ack() after the callback returned
ConsumerAck ==
    /\ mq.pc = "ack"
    /\ ConsumerStep([mq EXCEPT !.pc = "idle", !.acks = @ + 1,
                               !.acked = @ \cup {[body |-> mq.cur, http |-> mq.http,
                                                  console |-> mq.console]}])

NextConsumer ==
    \/ ConsumerDeliver
    \/ ConsumerDecode
    \/ ConsumerCallback
    \/ \E outcome \in HttpOutcomes : ConsumerHttp(outcome)
    \/ ConsumerConsole
    \/ ConsumerAck

\* The consumer alone, on a queue that already holds messages
SpecConsumer == InitConsumer /\ [][NextConsumer]_vars

\* The consumer task of start_email_consumer is scheduled for as long as it
\* has a step to take: a ready message is delivered, a handler that was
\* entered runs to its ack or nack
SpecConsumerFair == SpecConsumer /\ WF_vars(NextConsumer)

\* The service started on tables that already hold a user
SpecStored == InitStored /\ [][Next]_vars

\* register_user called with the password drawn at the start
RegisterDrawn(p, email) ==
    /\ req[p].op = "none"
    /\ RegisterUser(p, email, req[p].password)
NextPw == \E p \in Procs, e \in Emails : RegisterDrawn(p, e)
SpecPw == InitPw /\ [][NextPw]_vars

\* ------------------------------------------------------------ properties
Done(p, op) == pc[p] = "done" /\ req[p].op = op
AuthOp(p) == pc[p] = "done" /\ req[p].op \in {"activate", "resend"}
\* p authenticated, found the user PENDING and went on to check the code
PendingOwner(p) ==
    /\ Done(p, "activate")
    /\ aux[p].auth = "ok" /\ aux[p].status = "PENDING" /\ aux[p].row # "none"
UnusedRows(user_id) == {r \in codes : r.user_id = user_id /\ ~r.is_used}
LiveRows(user_id) == {r \in codes : r.user_id = user_id /\ IsValid(r)}
BetweenCalls == \A p \in Procs : pc[p] \in {"idle", "done"}

\* C1: with the correct password, a PENDING user and a code row of that user
\* that is unused and unexpired when it is checked, activate succeeds; the user
\* is then ACTIVE with activated_at set and the code row is flagged used.
C1_ActivateSucceeds ==
    \A p \in Procs :
        (PendingOwner(p) /\ aux[p].row = "unused" /\ ~aux[p].expired) =>
            /\ ret[p].kind = "OK"
            /\ ret[p].user.email = req[p].email
            /\ ret[p].user.status = "ACTIVE"
            /\ ret[p].user.activated_at # None
            /\ UserRowsByEmail(req[p].email) # {}
            /\ \A u \in UserRowsByEmail(req[p].email) :
                   u.status = "ACTIVE" /\ u.activated_at # None
            /\ CodeRows(ret[p].user.user_id, req[p].code) # {}
            /\ \A r \in CodeRows(ret[p].user.user_id, req[p].code) : r.is_used
C1_Witness ==
    \E p \in Procs :
        /\ PendingOwner(p) /\ aux[p].row = "unused" /\ ~aux[p].expired
        /\ ret[p].kind = "OK"
        /\ \E r \in CodeRows(ret[p].user.user_id, req[p].code) : r.is_used

\* C2 as stated: an activate call that repeats the email, password and code of
\* an activate that has succeeded fails with InvalidActivationCode.
C2_SecondIsInvalidCode ==
    \A p \in Procs :
        (Done(p, "activate") /\ aux[p].after) => ret[p] = InvalidActivationCodeException
\* C2 amended: that second call fails with UserAlreadyActivated, because the
\* already-active check runs before the code is looked at.
C2_SecondIsAlreadyActivated ==
    \A p \in Procs :
        (Done(p, "activate") /\ aux[p].after) => ret[p] = UserAlreadyActivatedException
C2_Witness ==
    \E p \in Procs :
        /\ Done(p, "activate") /\ aux[p].after
        /\ ret[p] = UserAlreadyActivatedException
        /\ \E r \in CodeRows(user[p].user_id, req[p].code) : r.is_used

\* C3: for every (user, code) pair at most one activate request succeeds,
\* however the requests that present it interleave.
C3_CodeUsedOnce ==
    \A w1 \in wins, w2 \in wins :
        (w1.user_id = w2.user_id /\ w1.code = w2.code) => w1 = w2

\* C4 as stated: activate and resend on an ACTIVE user fail with
\* UserAlreadyActivated whether or not the password and code are correct.
C4_ActiveAlwaysAlreadyActivated ==
    \A p \in Procs :
        (AuthOp(p) /\ aux[p].status = "ACTIVE") => ret[p] = UserAlreadyActivatedException
\* C4 amended: on an ACTIVE user they fail with UserAlreadyActivated when the
\* password is correct, whatever the code, and with AuthenticationFailed when
\* the password is wrong.
C4_ActiveAfterAuthentication ==
    \A p \in Procs :
        (AuthOp(p) /\ aux[p].status = "ACTIVE") =>
            ret[p] = IF aux[p].auth = "ok" THEN UserAlreadyActivatedException
                     ELSE AuthenticationException
C4_Witness ==
    \E p \in Procs :
        /\ Done(p, "activate") /\ aux[p].status = "ACTIVE" /\ aux[p].auth = "ok"
        /\ CodeRows(user[p].user_id, req[p].code) = {}
        /\ ret[p] = UserAlreadyActivatedException

\* C5: activate and resend answer an unknown email and a wrong password with
\* the same AuthenticationFailed error (same code, same status), and never
\* with UserNotFound.
AuthRefused(p) == AuthOp(p) /\ aux[p].auth \in {"absent", "badpw"}
C6_UsedBeforeExpired ==
    \A p \in Procs :
        PendingOwner(p) =>
            /\ aux[p].row \in {"absent", "used"} => ret[p] = InvalidActivationCodeException
            /\ (aux[p].row = "unused" /\ aux[p].expired) =>
                   ret[p] = ActivationCodeExpiredException
C6_Witness ==
    \E p \in Procs :
        /\ PendingOwner(p) /\ aux[p].row = "used" /\ aux[p].expired
        /\ ret[p] = InvalidActivationCodeException

\* C7: once a new code is issued for a user, every code row the user had
\* before is flagged used, and presenting such a code fails with
\* InvalidActivationCode, whatever its expiry.
C7_IssueInvalidatesEarlier ==
    /\ \A k \in superseded :
           /\ CodeRows(k[1], k[2]) # {}
           /\ \A r \in CodeRows(k[1], k[2]) : r.is_used
    /\ \A p \in Procs :
           (PendingOwner(p) /\ aux[p].stale) => ret[p] = InvalidActivationCodeException
C7_Witness ==
    \E p \in Procs :
        /\ PendingOwner(p) /\ aux[p].stale /\ ~aux[p].expired
        /\ LiveRows(user[p].user_id) # {}
        /\ ret[p] = InvalidActivationCodeException

\* C8: when calls do not overlap, between calls every user has at most one
\* live (unused, unexpired) code.
C8_OneLiveCodeSerial ==
    BetweenCalls => \A i \in UserIds : Cardinality(LiveRows(i)) <= 1
C8_Witness ==
    /\ BetweenCalls
    /\ \E i \in UserIds :
           /\ Cardinality(LiveRows(i)) = 1
           /\ \E r \in codes : r.user_id = i /\ r.is_used /\ now < r.expires_at

\* C9: a user has more than one unused code only when an issue inserted its
\* row between another issue's invalidate-all and insert; two overlapping
\* resend calls reach such a state, with both codes live.
C9_SeveralLiveOnlyByRace ==
    \A i \in UserIds : Cardinality(UnusedRows(i)) > 1 => i \in raced
C9_Witness ==
    \E p \in Procs, q \in Procs :
        /\ p # q
        /\ Done(p, "resend") /\ Done(q, "resend")
        /\ ret[p].kind = "OK" /\ ret[q].kind = "OK"
        /\ user[p].user_id = user[q].user_id
        /\ Cardinality(LiveRows(user[p].user_id)) > 1

\* C10: a code expires 60 seconds after it is generated: the authenticated
\* PENDING owner who presents the unused code 60 seconds or more after its
\* generation gets ActivationCodeExpired and stays PENDING.
C10_ExpiresAfterOneMinute ==
    /\ \A r \in codes : r.expires_at = r.created_at + 60
    /\ \A p \in Procs :
           (PendingOwner(p) /\ aux[p].row = "unused" /\ aux[p].age >= 60) =>
               /\ ret[p] = ActivationCodeExpiredException
               /\ \A u \in UserRowsByEmail(req[p].email) :
                      u.status = "PENDING" /\ u.activated_at = None
C10_Witness ==
    \E p \in Procs :
        /\ PendingOwner(p) /\ aux[p].row = "unused" /\ aux[p].age = 60
        /\ ret[p] = ActivationCodeExpiredException
        /\ \E u \in UserRowsByEmail(req[p].email) : u.status = "PENDING"

\* C11: a code is valid exactly when it is not used and now < expires_at, in
\* each of the four combinations of (is_used, now >= expires_at); and the
\* code check of activate accepts a stored code exactly when is_valid() is
\* true for it.
C11_CheckAcceptsExactlyValid ==
    /\ \A r \in codes :
           /\ (~r.is_used /\ ~(now >= r.expires_at)) => IsValid(r)
           /\ (~r.is_used /\ now >= r.expires_at) => ~IsValid(r)
           /\ (r.is_used /\ ~(now >= r.expires_at)) => ~IsValid(r)
           /\ (r.is_used /\ now >= r.expires_at) => ~IsValid(r)
           /\ (VerifyActivationCode(r.user_id, r.code) = NoRet) <=> IsValid(r)
    /\ \A p \in Procs :
           (PendingOwner(p) /\ aux[p].row # "absent") =>
               (ret[p].kind = "OK" <=> (aux[p].row = "unused" /\ ~aux[p].expired))
C11_Witness ==
    \E p \in Procs :
        /\ PendingOwner(p) /\ aux[p].row = "unused" /\ ~aux[p].expired
        /\ ret[p].kind = "OK"
        /\ \E r \in codes : r.is_used /\ now >= r.expires_at
        /\ \E r \in codes : r.is_used /\ now < r.expires_at

\* C12: a register call with a password that passes the policy, made after
\* an earlier such register call with the same email, fails with
\* EmailAlreadyExists and leaves one user record with that email.
C12_SecondRegisterRefused ==
    \A p \in Procs :
        (req[p].op = "register" /\ aux[p].after /\ PasswordValidate(req[p].password)) =>
            /\ pc[p] = "done"
            /\ ret[p] = EmailAlreadyExistsException
            /\ Cardinality(UserRowsByEmail(req[p].email)) = 1
            /\ users = aux[p].pre.users
C12_Witness ==
    \E p \in Procs :
        /\ Done(p, "register") /\ aux[p].after /\ req[p].password = GoodPw
        /\ ret[p] = EmailAlreadyExistsException
        /\ Cardinality(users) = 1

\* C13: of two register calls with the same email that both pass the
\* existence check, the one whose INSERT meets the other's row fails with
\* EmailAlreadyExists.
C13_RaceLoserGetsEmailExists ==
    \A p \in Procs :
        (Done(p, "register") /\ aux[p].dup) => ret[p] = EmailAlreadyExistsException

\* C14: in every reachable state, however register calls interleave, no two
\* user records have the same email.
C14_EmailUnique ==
    \A u \in users, v \in users : u.email = v.email => u = v
C14_Witness ==
    \E p \in Procs, q \in Procs :
        /\ p # q
        /\ Done(p, "register") /\ aux[p].dup
        /\ req[q].op = "register" /\ req[q].email = req[p].email
        /\ Cardinality(UserRowsByEmail(req[p].email)) = 1

\* C15: register fails with ValidationError exactly for the passwords that
\* are empty, shorter than 8 characters, without a letter or without a digit;
\* every password of 8 or more characters with a letter and a digit passes.
C15_PolicyExact ==
    \A p \in Procs :
        req[p].op = "register" =>
            LET w == req[p].password
                noLetter == \A i \in 1..Len(w) : w[i] \notin Letters
                noDigit == \A i \in 1..Len(w) : w[i] \notin Digits
            IN /\ (ret[p] = ValidationException) <=>
                      (w = <<>> \/ Len(w) < 8 \/ noLetter \/ noDigit)
               /\ (Len(w) >= 8 /\ ~noLetter /\ ~noDigit) =>
                      (pc[p] = "create_user_insert" /\ ret[p] = NoRet)
C15_Witness ==
    \E p \in Procs :
        /\ req[p].op = "register" /\ pc[p] = "create_user_insert"
        /\ Len(req[p].password) = 8
        /\ \E i \in 1..8 : req[p].password[i] = "#"

\* C16: a register call whose password fails the policy ends at once with
\* ValidationError and changes neither table nor the queue: no user record,
\* no code row inserted or flagged, no message.
C16_PolicyFailureTouchesNothing ==
    [][\A p \in Procs :
         (/\ CanStart(p) /\ nreq' = nreq + 1
          /\ req'[p].op = "register"
          /\ (Len(req'[p].password) < 8 \/ ~HasLetter(req'[p].password)
                                        \/ ~HasNumber(req'[p].password))) =>
             /\ pc'[p] = "done"
             /\ ret'[p] = ValidationException
             /\ users' = users /\ codes' = codes /\ queue' = queue]_vars
C16_Witness ==
    \E p \in Procs :
        /\ Done(p, "register") /\ ret[p] = ValidationException
        /\ users = aux[p].pre.users /\ users # {}
        /\ codes = aux[p].pre.codes /\ \E r \in codes : ~r.is_used
        /\ queue = aux[p].pre.queue /\ queue # <<>>

\* C17: a successful register returns the user it created, with status
\* PENDING, and compared with the state the call found there is exactly one
\* more user record (that user), one more code row (unused, of that user), and
\* one more message at the end of the queue, carrying that user's email and id
\* and that code.
C17_RegisterEffects ==
    \A p \in Procs :
        (Done(p, "register") /\ ret[p].kind = "OK") =>
            LET u == ret[p].user
                pre == aux[p].pre
            IN /\ u.status = "PENDING" /\ u.email = req[p].email
               /\ u \notin pre.users
               /\ users = pre.users \cup {u}
               /\ \E r \in codes :
                      /\ r \notin pre.codes
                      /\ codes = pre.codes \cup {r}
                      /\ r.user_id = u.user_id /\ ~r.is_used
                      /\ Len(queue) = Len(pre.queue) + 1
                      /\ SubSeq(queue, 1, Len(pre.queue)) = pre.queue
                      /\ queue[Len(queue)].type = "activation_code"
                      /\ queue[Len(queue)].recipient = u.email
                      /\ queue[Len(queue)].user_id = u.user_id
                      /\ queue[Len(queue)].activation_code = r.code
C17_Witness ==
    \E p \in Procs :
        /\ Done(p, "register") /\ ret[p].kind = "OK"
        /\ aux[p].pre.users # {} /\ aux[p].pre.codes # {} /\ aux[p].pre.queue # <<>>
        /\ Cardinality(users) = 2 /\ Len(queue) = 2

\* C18: a successful resend by a PENDING user with the correct password
\* adds one unused code row of that user, flags every code row the user had
\* as used, leaves the other users' rows alone, appends one message that
\* carries the new code, and leaves the users table as it was.
C18_ResendEffects ==
    \A p \in Procs :
        (/\ Done(p, "resend") /\ ret[p].kind = "OK"
         /\ aux[p].auth = "ok" /\ aux[p].status = "PENDING") =>
            LET i == user[p].user_id
                pre == aux[p].pre
            IN /\ users = pre.users
               /\ \E u \in users :
                      u.user_id = i /\ u.status = "PENDING" /\ u.activated_at = None
               /\ \E r \in codes :
                      /\ r \notin pre.codes
                      /\ r.user_id = i /\ ~r.is_used
                      /\ codes = {IF x.user_id = i THEN [x EXCEPT !.is_used = TRUE]
                                  ELSE x : x \in pre.codes} \cup {r}
                      /\ Len(queue) = Len(pre.queue) + 1
                      /\ SubSeq(queue, 1, Len(pre.queue)) = pre.queue
                      /\ queue[Len(queue)].recipient = req[p].email
                      /\ queue[Len(queue)].user_id = i
                      /\ queue[Len(queue)].activation_code = r.code
C18_Witness ==
    \E p \in Procs :
        /\ Done(p, "resend") /\ ret[p].kind = "OK"
        /\ aux[p].auth = "ok" /\ aux[p].status = "PENDING"
        /\ \E x \in aux[p].pre.codes : x.user_id = user[p].user_id /\ ~x.is_used
        /\ \E x \in codes : x.user_id # user[p].user_id /\ ~x.is_used

C21_ActivatedAtIffActive ==
    \A u \in users : (u.activated_at # None) <=> (u.status = "ACTIVE")
C21_Witness ==
    /\ \E u \in users : u.status = "ACTIVE" /\ u.activated_at # None
    /\ \E u \in users : u.status = "PENDING" /\ u.activated_at = None
    /\ \E p \in Procs : Done(p, "activate") /\ ret[p].kind = "OK"

\* C22: when publishing the activation message fails (no channel, declare
\* or publish error), register and resend fail with
\* NotificationServiceUnavailable: they do not report success, and no
\* message is queued.
C22_PublishFailureIsReported ==
    \A p \in Procs :
        aux[p].fault \in PublishFaults =>
            /\ req[p].op \in {"register", "resend"}
            /\ pc[p] = "done"
            /\ ret[p].kind = "NotificationServiceUnavailable"
            /\ ret[p].err_code = "DM_REG_0009" /\ ret[p].err_status_code = 503
            /\ queue = aux[p].pre.queue
C22_Witness ==
    \E p \in Procs :
        /\ Done(p, "resend") /\ aux[p].fault = "no_channel"
        /\ ret[p] = EmailServiceException
        /\ queue # <<>>

\* C23: the consumer acknowledges a message only after its processing
\* callback has returned: at the ack, the delivery attempt for the message
\* (HTTP, and the console fallback when HTTP did not succeed) has finished.
C23_AckAfterCallback ==
    [][mq'.acks # mq.acks =>
          /\ mq.returned
          /\ (mq.cur.value.type = "activation_code" /\ ~MissingFields(mq.cur.value)) =>
                 /\ mq.http # "none"
                 /\ mq.http = "200" \/ mq.console]_vars
C23_Witness ==
    /\ mq.acks > 0 /\ mq.pc = "idle"
    /\ mq.cur = FullBody /\ mq.http = "timeout" /\ mq.console

\* C24: a message whose body cannot be parsed as JSON is rejected without
\* requeue; a message whose callback raises any other exception is rejected
\* with requeue and is delivered again.
Unparseable(body) == body.enc \in {"bad_json", "bad_utf8"}
C24_UnparseableDropped ==
    \A n \in mq.nacked :
        /\ Unparseable(n.body) => ~n.requeue
        /\ ~Unparseable(n.body) => n.requeue

\* C25: every acked activation message that has recipient, activation_code
\* and user_id was delivered through at least one channel: when the HTTP
\* attempt failed (error status, timeout, connection failure, any other
\* exception) the console fallback delivered it.
C25_NeverSilentlyLost ==
    \A a \in mq.acked :
        (a.body.value.type = "activation_code" /\ ~MissingFields(a.body.value)) =>
            /\ a.http \in HttpOutcomes
            /\ a.http \in {"200", "202"} \/ a.console
            /\ a.http \in {"500", "timeout", "connect_error", "error"} => a.console
C25_Witness ==
    \E a \in mq.acked, b \in mq.acked :
        /\ a.body = FullBody /\ a.http = "connect_error" /\ a.console
        /\ b.body = FullBody /\ b.http = "200" /\ ~b.console

\* C26: the console fallback runs exactly when the HTTP attempt did not end
\* with a 2xx answer (error status, timeout, connection failure or another
\* exception), and never when the endpoint answered 2xx.
C26_FallbackOnlyOnFailure ==
    \A a \in mq.acked :
        (a.body.value.type = "activation_code" /\ ~MissingFields(a.body.value)) =>
            (a.console <=> a.http \notin {"200", "202"})

\* C27: a run of cleanup_expired_codes removes exactly the code rows that
\* are used or expired, expired meaning now >= expires_at, leaves every live
\* row in place and returns the number of rows it removed.
C27_SweepRemovesUsedOrExpired ==
    swept.n > 0 =>
        LET due == {r \in swept.before : r.is_used \/ swept.at >= r.expires_at} IN
        /\ swept.after = swept.before \ due
        /\ swept.count = Cardinality(due)

\* C28: a run of the sweep that finds the code store and the clock as the
\* previous run left them removes nothing, returns 0 and leaves the store
\* unchanged.
C28_SweepTwiceIdempotent ==
    swept.again =>
        /\ swept.count = 0
        /\ swept.after = swept.before
C28_Witness ==
    /\ swept.again /\ swept.n = 2
    /\ swept.prev > 0
    /\ swept.count = 0
    /\ codes # {}

\* C29: within one create_activation_code call the invalidation of the
\* user's codes is complete before the new row is inserted, so a call that
\* no other issue for the user overlaps ends with the new code unused, the
\* only unused code of the user.
C29_InvalidateThenInsert ==
    \A p \in Procs :
        req[p].op \in {"register", "resend"} =>
            /\ pc[p] = "insert_code" =>
                   /\ gen[p] \notin codes
                   /\ \A r \in codes : r.user_id = gen[p].user_id => r.is_used
            /\ (pc[p] = "publish" \/ (pc[p] = "done" /\ ret[p].kind = "OK")) =>
                   /\ gen[p] \in codes /\ ~gen[p].is_used
                   /\ UnusedRows(gen[p].user_id) = {gen[p]}
C29_Witness ==
    \E p \in Procs :
        /\ Done(p, "resend") /\ ret[p].kind = "OK"
        /\ gen[p] \in codes /\ ~gen[p].is_used
        /\ \E r \in codes : r.user_id = gen[p].user_id /\ r.is_used /\ now < r.expires_at

\* C30: activation writes the status first and marks the code second, with
\* no transaction around the two: between the writes the user is ACTIVE
\* while the presented code is still unused, and when the mark-used write
\* fails the call reports a storage error while the user stays ACTIVE and
\* the code stays unused.
C30_ActivationNotAtomic ==
    \A p \in Procs :
        LET active == \E u \in users : u.user_id = user[p].user_id /\ u.status = "ACTIVE"
            unused == \E r \in CodeRows(user[p].user_id, req[p].code) : ~r.is_used
        IN /\ pc[p] \in {"get_user_by_id", "mark_code_as_used"} => (active /\ unused)
           /\ pc[p] = "update_user_status" => ~active
           /\ aux[p].fault = "mark_code_as_used" =>
                  /\ pc[p] = "done"
                  /\ ret[p].kind = "DatabaseError" /\ ret[p].err_status_code = 500
                  /\ active /\ unused
C30_Witness ==
    \E p \in Procs :
        /\ Done(p, "activate") /\ aux[p].fault = "mark_code_as_used"
        /\ ret[p] = DatabaseException
        /\ \E u \in users : u.user_id = user[p].user_id /\ u.status = "ACTIVE"
        /\ \E r \in CodeRows(user[p].user_id, req[p].code) : ~r.is_used /\ now < r.expires_at

\* C31: the code lookup matches on (authenticated user's id, code): an activate
\* that succeeds presented a code of a row of the caller's own, and a caller
\* with the correct password and a PENDING account who presents four digits
\* that only rows of other users carry gets InvalidActivationCode and stays
\* PENDING.
OwnRows(p) == {r \in codes : r.user_id = user[p].user_id /\ r.code = req[p].code}
ForeignRows(p) == {r \in codes : r.user_id # user[p].user_id /\ r.code = req[p].code}
C31_CodeBelongsToCaller ==
    \A p \in Procs :
        /\ (Done(p, "activate") /\ ret[p].kind = "OK") => OwnRows(p) # {}
        /\ (PendingOwner(p) /\ OwnRows(p) = {}) =>
               /\ ret[p] = InvalidActivationCodeException
               /\ \A u \in users : u.user_id = user[p].user_id => u.status = "PENDING"
C31_Witness ==
    \E p \in Procs :
        /\ PendingOwner(p) /\ OwnRows(p) = {}
        /\ \E r \in ForeignRows(p) : IsValid(r)
        /\ ret[p] = InvalidActivationCodeException

\* C32: a user becomes ACTIVE only in a step of an activate call for that user
\* that presented the correct password and whose code check found a row of
\* that user present, unused and unexpired; no user is ACTIVE at the start, so
\* every ACTIVE user in a reachable state was made ACTIVE by such a call.
ActiveIds(rows) == {u.user_id : u \in {v \in rows : v.status = "ACTIVE"}}
VerifiedActivate(p, user_id) ==
    /\ req[p].op = "activate"
    /\ pc[p] = "update_user_status"
    /\ user[p].user_id = user_id
    /\ aux[p].auth = "ok"
    /\ aux[p].row = "unused"
    /\ ~aux[p].expired
C32_ActiveOnlyByVerifiedActivate ==
    [][\A user_id \in ActiveIds(users') \ ActiveIds(users) :
           \E p \in Procs : VerifiedActivate(p, user_id)]_vars
C32_Witness ==
    \E p \in Procs :
        /\ Done(p, "activate") /\ ret[p].kind = "OK"
        /\ aux[p].auth = "ok" /\ aux[p].row = "unused" /\ ~aux[p].expired
        /\ user[p].user_id \in ActiveIds(users)

\* C33: the code row is inserted before its notification is published: in
\* every step that puts a message on the queue, the code store already holds,
\* before the step, a row with the message's user_id and code.
Published(before, after) == {after[i] : i \in (Len(before) + 1)..Len(after)}
C33_RowBeforePublish ==
    [][\A message \in Published(queue, queue') :
           \E r \in codes : /\ r.user_id = message.user_id
                            /\ r.code = message.activation_code]_vars
C33_Witness ==
    /\ Len(queue) = 2
    /\ \A i \in 1..Len(queue) :
           \E r \in codes : /\ r.user_id = queue[i].user_id
                            /\ r.code = queue[i].activation_code

\* C34: an activate that fails with AuthenticationFailed, UserAlreadyActivated,
\* InvalidActivationCode or ActivationCodeExpired leaves every user record,
\* every code row and the queue as the call found them.
ActivateRefusals ==
    {"AuthenticationFailed", "UserAlreadyActivated", "InvalidActivationCode",
     "ActivationCodeExpired"}
C34_RefusedActivateTouchesNothing ==
    \A p \in Procs :
        (Done(p, "activate") /\ ret[p].kind \in ActivateRefusals) =>
            /\ users = aux[p].pre.users
            /\ codes = aux[p].pre.codes
            /\ queue = aux[p].pre.queue
C34_Witness ==
    \E p \in Procs :
        /\ Done(p, "activate")
        /\ ret[p].kind = "ActivationCodeExpired"
        /\ UnusedRows(user[p].user_id) # {}
        /\ users = aux[p].pre.users /\ codes = aux[p].pre.codes
        /\ queue = aux[p].pre.queue /\ queue # <<>>

\* C35: when the INSERT of a new code fails because the generated code equals
\* the code of a row the user already has, the call fails with the storage
\* error and publishes nothing, and the invalidation it performed stays: all
\* rows of the user are flagged used and the user has no live code.
KeyCollision(p) ==
    \E r \in aux[p].pre.codes : r.user_id = gen[p].user_id /\ r.code = gen[p].code
Issuing(p) == Done(p, "resend") /\ aux[p].auth = "ok" /\ aux[p].status = "PENDING"
C35_InsertFailureKeepsInvalidation ==
    \A p \in Procs :
        /\ (Issuing(p) /\ KeyCollision(p)) =>
               /\ ret[p] = DatabaseException
               /\ queue = aux[p].pre.queue
               /\ users = aux[p].pre.users
               /\ codes = {IF r.user_id = user[p].user_id
                            THEN [r EXCEPT !.is_used = TRUE] ELSE r :
                            r \in aux[p].pre.codes}
               /\ LiveRows(user[p].user_id) = {}
        /\ (Issuing(p) /\ ret[p].kind = "DatabaseError") => KeyCollision(p)
C35_Witness ==
    \E p \in Procs :
        /\ Issuing(p) /\ KeyCollision(p)
        /\ ret[p] = DatabaseException
        /\ \E r \in aux[p].pre.codes :
               r.user_id = user[p].user_id /\ ~r.is_used /\ now < r.expires_at
        /\ LiveRows(user[p].user_id) = {}

\* C36: a register that fails after its user record was created (the code
\* INSERT or the publish failed) leaves that record persisted as PENDING; a
\* later register with the same email and a password that passes the policy
\* fails with EmailAlreadyExists, and a later resend with the credentials,
\* when nothing fails in it, issues a code: it succeeds, the new row is stored
\* unused and its message is the last on the queue.
IssueFaults == PublishFaults \cup {"create_activation_code"}
\* the store holds a user with this email for whom no message was ever queued
Orphan(store, email) ==
    \E u \in store.users :
        /\ u.email = email
        /\ \A i \in 1..Len(store.queue) : store.queue[i].user_id # u.user_id
C36_FailedRegisterLeavesPendingUser ==
    \A p \in Procs :
        /\ (req[p].op = "register" /\ aux[p].fault \in IssueFaults) =>
               /\ pc[p] = "done"
               /\ ret[p].kind \in {"DatabaseError", "NotificationServiceUnavailable"}
               /\ \E u \in users : /\ u.email = req[p].email
                                    /\ u.user_id = user[p].user_id
                                    /\ u.status = "PENDING"
               /\ Orphan([users |-> users, queue |-> queue], req[p].email)
        /\ (/\ Done(p, "register")
            /\ PasswordValidate(req[p].password)
            /\ Orphan(aux[p].pre, req[p].email)) =>
               /\ ret[p] = EmailAlreadyExistsException
               /\ users = aux[p].pre.users
        /\ (/\ Issuing(p)
            /\ Orphan(aux[p].pre, req[p].email)
            /\ aux[p].fault = "none"
            /\ ~KeyCollision(p)) =>
               /\ ret[p] = Ok(NoUser)
               /\ gen[p] \in codes /\ ~gen[p].is_used
               /\ queue # <<>>
               /\ queue[Len(queue)].user_id = user[p].user_id
               /\ queue[Len(queue)].activation_code = gen[p].code
C36_Witness ==
    \E p \in Procs :
        /\ Issuing(p) /\ Orphan(aux[p].pre, req[p].email)
        /\ ret[p] = Ok(NoUser)
        /\ gen[p] \in codes /\ IsValid(gen[p])
        /\ Len(queue) = 1 /\ queue[1].user_id = user[p].user_id

\* C37: once a user's status is ACTIVE, no step inserts a new code row for that
\* user and no step publishes an activation message for that user, whatever
\* the interleaving of the activate and resend calls.
Inserted(before, after) ==
    {r \in after : \A x \in before : x.user_id # r.user_id \/ x.code # r.code}
C37_NoIssueOnceActive ==
    [][/\ \A r \in Inserted(codes, codes') : r.user_id \notin ActiveIds(users)
       /\ \A message \in Published(queue, queue') :
              message.user_id \notin ActiveIds(users)]_vars

\* C38: under fair scheduling of the consumer, every message delivered from
\* the queue is eventually removed from it (acked, or rejected without
\* requeue): after a delivery the number of messages the queue still holds
\* eventually drops, so no body is requeued and redelivered forever.
InQueue == Len(mq.ready) + (IF mq.pc = "idle" THEN 0 ELSE 1)
C38_DeliveredIsEventuallyRemoved ==
    \A n \in 1..MaxMessages :
        (mq.pc = "decode" /\ InQueue = n) ~> (InQueue < n)

\* C39: a parseable message (a JSON object) that has an unknown type, or that
\* lacks recipient, activation_code or user_id, is acknowledged without any
\* delivery attempt, neither HTTP nor console, and is never rejected or
\* requeued.
Discarded(body) ==
    /\ body.enc = "json_object"
    /\ \/ body.value.type # "activation_code"
       \/ body.value.recipient = ""
       \/ body.value.activation_code = 0
       \/ body.value.user_id = 0
C39_InvalidMessageAckedUndelivered ==
    /\ \A a \in mq.acked : Discarded(a.body) => (a.http = "none" /\ ~a.console)
    /\ \A n \in mq.nacked : ~Discarded(n.body)
    /\ (mq.pc \notin {"idle", "decode", "callback"} /\ Discarded(mq.cur)) =>
           /\ mq.pc = "ack"
           /\ mq.http = "none" /\ ~mq.console
C39_Witness ==
    /\ mq.pc = "idle" /\ mq.ready = <<>> /\ mq.nacked = {}
    /\ \E a \in mq.acked : a.body = NoRecipientBody /\ a.http = "none" /\ ~a.console
    /\ \E a \in mq.acked : a.body = OtherTypeBody /\ a.http = "none" /\ ~a.console

\* C40: producer and consumers agree on the message contract: every message
\* send_activation_code has put on the queue is of the type the consumer of
\* EmailService handles, passes its required-field check, and passes the
\* required-field check of the standalone EmailConsumer handler.
C40_ContractAgreed ==
    \A i \in 1..Len(queue) :
        /\ queue[i].type = "activation_code"
        /\ ~MissingFields(queue[i])
        /\ ~HandleEmailMessageInvalid(queue[i])
====
